---- MODULE Spec2Model ----
(***************************************************************************)
(* Frame lifecycle and swapchain management of VkDraw (src/src/app.cpp).   *)
(*                                                                         *)
(* One CPU thread runs run(): the main loop polls the SDL events and calls  *)
(* draw_frame(); the GPU executes the submitted command buffers and the    *)
(* queued presents concurrently.  The CPU side is cut at its Vulkan calls: *)
(* pc names the call the thread is about to make.                          *)
(***************************************************************************)
EXTENDS Integers, Sequences, FiniteSets, TLC

(* ---------------------------------------------------------------------- *)
(* Program constants                                                        *)
(* ---------------------------------------------------------------------- *)
MAX_FRAMES_IN_FLIGHT == 2

\* SDL_EventType values compared by the event switch of run()
SDL_QUIT == 256

SDL_WINDOWEVENT == 512

\* SDL_WindowEventID value compared by the event switch of run()
SDL_WINDOWEVENT_RESIZED == 5

\* any SDL_WindowEventID other than SDL_WINDOWEVENT_RESIZED
SDL_WINDOWEVENT_EXPOSED == 3

EXIT_SUCCESS == 0

\* mutant: the catch block of main() leaves res as it was
EXIT_FAILURE_unset == EXIT_SUCCESS

EXIT_FAILURE == 1

\* std::numeric_limits<uint32_t>::max(); the word is scaled down to 16 bits,
\* since TLC's integers end at 2^31 - 1
UINT32_MAX == 65535

(* ---------------------------------------------------------------------- *)
(* Bounds of the model                                                      *)
(* ---------------------------------------------------------------------- *)
\* largest image count a surface reports to create_swapchain on its own
MaxImageCount == 3

\* events returned by SDL_PollEvent in one pass of the main loop
MaxEvents == 2

\* distinct VkSwapchainKHR handles the driver hands out before it reuses one
NumSwapchains == 2

Slots == 0 .. (MAX_FRAMES_IN_FLIGHT - 1)

(* ---------------------------------------------------------------------- *)
(* Vulkan results and surface properties                                    *)
(* ---------------------------------------------------------------------- *)
VK_SUCCESS == "VK_SUCCESS"

VK_SUBOPTIMAL_KHR == "VK_SUBOPTIMAL_KHR"

VK_ERROR_OUT_OF_DATE_KHR == "VK_ERROR_OUT_OF_DATE_KHR"

\* any other result (device lost, surface lost, out of memory, ...)
VK_ERROR_DEVICE_LOST == "VK_ERROR_DEVICE_LOST"

AcquireResults ==
    {VK_SUCCESS, VK_SUBOPTIMAL_KHR, VK_ERROR_OUT_OF_DATE_KHR, VK_ERROR_DEVICE_LOST}

PresentResults ==
    {VK_SUCCESS, VK_SUBOPTIMAL_KHR, VK_ERROR_OUT_OF_DATE_KHR, VK_ERROR_DEVICE_LOST}

SubmitResults == {VK_SUCCESS, VK_ERROR_DEVICE_LOST}

VK_PRESENT_MODE_FIFO_KHR == "VK_PRESENT_MODE_FIFO_KHR"

VK_PRESENT_MODE_MAILBOX_KHR == "VK_PRESENT_MODE_MAILBOX_KHR"

PreferredFormat ==
    [format |-> "VK_FORMAT_B8G8R8A8_SRGB",
     colorSpace |-> "VK_COLOR_SPACE_SRGB_NONLINEAR_KHR"]

OtherFormat ==
    [format |-> "VK_FORMAT_R8G8B8A8_UNORM",
     colorSpace |-> "VK_COLOR_SPACE_SRGB_NONLINEAR_KHR"]

\* static VkSurfaceFormatKHR _swapchain_format; (zero-initialised)
ZeroFormat ==
    [format |-> "VK_FORMAT_UNDEFINED",
     colorSpace |-> "VK_COLOR_SPACE_SRGB_NONLINEAR_KHR"]

\* What the surface and the window report to one call of create_swapchain.
Surfaces ==
    { [formats |-> <<PreferredFormat>>,
       present_modes |-> <<VK_PRESENT_MODE_FIFO_KHR, VK_PRESENT_MODE_MAILBOX_KHR>>,
       capabilities |-> [minImageCount |-> 2, maxImageCount |-> 3,
                         currentExtent |-> [width |-> 8, height |-> 6],
                         minImageExtent |-> [width |-> 1, height |-> 1],
                         maxImageExtent |-> [width |-> 16, height |-> 16]],
       window |-> [width |-> 8, height |-> 6]],
      [formats |-> <<OtherFormat>>,
       present_modes |-> <<VK_PRESENT_MODE_FIFO_KHR>>,
       capabilities |-> [minImageCount |-> 2, maxImageCount |-> 2,
                         currentExtent |-> [width |-> UINT32_MAX, height |-> UINT32_MAX],
                         minImageExtent |-> [width |-> 1, height |-> 1],
                         maxImageExtent |-> [width |-> 16, height |-> 16]],
       window |-> [width |-> 20, height |-> 4]],
      [formats |-> <<>>,
       present_modes |-> <<VK_PRESENT_MODE_FIFO_KHR>>,
       capabilities |-> [minImageCount |-> 2, maxImageCount |-> 3,
                         currentExtent |-> [width |-> 8, height |-> 6],
                         minImageExtent |-> [width |-> 1, height |-> 1],
                         maxImageExtent |-> [width |-> 16, height |-> 16]],
       window |-> [width |-> 8, height |-> 6]],
      [formats |-> <<PreferredFormat>>,
       present_modes |-> <<>>,
       capabilities |-> [minImageCount |-> 2, maxImageCount |-> 3,
                         currentExtent |-> [width |-> 8, height |-> 6],
                         minImageExtent |-> [width |-> 1, height |-> 1],
                         maxImageExtent |-> [width |-> 16, height |-> 16]],
       window |-> [width |-> 8, height |-> 6]] }

\* _swapchain_support before the first query: empty vectors, zeroed struct
NoSupport ==
    [formats |-> <<>>, present_modes |-> <<>>,
     capabilities |-> [minImageCount |-> 0, maxImageCount |-> 0,
                       currentExtent |-> [width |-> 0, height |-> 0],
                       minImageExtent |-> [width |-> 0, height |-> 0],
                       maxImageExtent |-> [width |-> 0, height |-> 0]],
     window |-> [width |-> 0, height |-> 0]]

VK_SHARING_MODE_EXCLUSIVE == "VK_SHARING_MODE_EXCLUSIVE"

VK_SHARING_MODE_CONCURRENT == "VK_SHARING_MODE_CONCURRENT"

\* the queue families of the physical device: which of them support graphics
\* and which can present to the surface
DeviceFamilies == <<[gfx |-> TRUE, present |-> TRUE]>>

\* std::optional<uint32_t> without a value
NoFamily == [gfx_family |-> -1, present_family |-> -1]

\* the kinds of objects built on the swapchain, and the per-slot
\* synchronisation objects
SwapchainObjects == {"swapchain", "image_views", "framebuffers"}

SyncObjects == {"image_available", "render_finished", "in_flight"}

(* ---------------------------------------------------------------------- *)
(* State                                                                    *)
(* ---------------------------------------------------------------------- *)
VARIABLES
    pc,                      \* the call the CPU thread is about to make
    running,                 \* bool running of run()
    exit_code,               \* value returned by main(), -1 while it runs
    _current_frame,          \* static uint32_t _current_frame
    _window_resized,         \* static bool _window_resized
    res,                     \* local res of draw_frame (VK_SUCCESS outside it)
    image_idx,               \* local image_idx of draw_frame (0 outside it)
    ret,                     \* which call of recreate_swapchain is active
    _swapchain,              \* VkSwapchainKHR handle
    _swapchain_format,       \* static VkSurfaceFormatKHR
    _swapchain_mode,         \* static VkPresentModeKHR
    _swapchain_extent,       \* static VkExtent2D
    _swapchain_images,       \* number of images of _swapchain
    _swapchain_image_views,  \* sequence of image views
    _framebuffers,           \* sequence of framebuffers
    _swapchain_support,      \* static SwapchainSupport, as last queried
    _queue_family,           \* static QueueFamilyIndex
    swapchain_info,          \* VkSwapchainCreateInfoKHR of _swapchain
    _render_pass,            \* what _render_pass was created with
    _command_buffer,         \* per slot: what the command buffer records
    _mapped_uniform_buffers, \* per slot: what update_ubos wrote
    _in_flight,              \* per slot: fence signaled
    _image_available,        \* per slot: semaphore signaled
    _render_finished,        \* per slot: semaphore signaled
    gfx_queue,               \* submitted command buffers not yet complete
    present_queue,           \* queued presents not yet complete
    destroyed,               \* swapchain handles whose objects are destroyed
    live,                    \* the kinds of Vulkan objects that exist
    device_destroyed,        \* teardown of run() has destroyed the objects
    minimized,               \* SDL_GetWindowFlags(_window) & SDL_WINDOW_MINIMIZED
    out_of_date,             \* the surface no longer matches _swapchain
    tick,                    \* history: slot and outcome of the current tick
    prev_tick,               \* history: slot and outcome of the tick before
    resize_polled,           \* history: a resize event polled, not yet served
    deferred                 \* history: what asked for the recreation last skipped

swapchainVars ==
    <<_swapchain, _swapchain_format, _swapchain_mode, _swapchain_extent,
      _swapchain_images, _swapchain_image_views, _framebuffers,
      _swapchain_support, _queue_family, swapchain_info, _render_pass,
      destroyed, live>>

syncVars == <<_in_flight, _image_available, _render_finished>>

gpuVars == <<gfx_queue, present_queue>>

histVars == <<tick, prev_tick, resize_polled, deferred>>

vars ==
    <<pc, running, exit_code, _current_frame, _window_resized, res, image_idx,
      ret, swapchainVars, _command_buffer, _mapped_uniform_buffers, syncVars,
      gpuVars, device_destroyed, minimized, out_of_date, histVars>>

\* a command buffer that vkResetCommandBuffer has reset, or never recorded
InitialCommand ==
    [framebuffer |-> [swapchain |-> -1, image |-> -1], descriptor_set |-> -1]

NoTick ==
    [slot |-> -1, outcome |-> "none", recreate |-> "none", did |-> {},
     served |-> "none"]

(* ---------------------------------------------------------------------- *)
(* create_swapchain and the objects built on the swapchain                  *)
(* ---------------------------------------------------------------------- *)
\* select swapchain format: the loop assigns only when the preferred pair is
\* found; otherwise _swapchain_format keeps the value it had
RECURSIVE SelectFormat(_, _)
SelectFormat(cur, formats) ==
    IF formats = <<>> THEN cur
    ELSE IF /\ Head(formats).format = PreferredFormat.format
            /\ Head(formats).colorSpace = PreferredFormat.colorSpace
         THEN Head(formats)
         ELSE SelectFormat(cur, Tail(formats))

\* select swapchain presentation mode: assigns only on MAILBOX, no break
RECURSIVE SelectMode(_, _)
SelectMode(cur, modes) ==
    IF modes = <<>> THEN cur
    ELSE SelectMode(IF Head(modes) = VK_PRESENT_MODE_MAILBOX_KHR
                    THEN Head(modes) ELSE cur,
                    Tail(modes))

\* mutant: the window size is taken as it is
Clamp_none(v, lo, hi) == v

\* std::clamp(v, lo, hi)
Clamp(v, lo, hi) == IF v < lo THEN lo ELSE IF hi < v THEN hi ELSE v

\* select swapchain extent
SelectExtent(capabilities, window) ==
    IF capabilities.currentExtent.width = UINT32_MAX
    THEN [width |-> Clamp(window.width % (UINT32_MAX + 1),
                          capabilities.minImageExtent.width,
                          capabilities.maxImageExtent.width),
          height |-> Clamp(window.height % (UINT32_MAX + 1),
                           capabilities.minImageExtent.height,
                           capabilities.maxImageExtent.height)]
    ELSE capabilities.currentExtent

\* mutant: the image count is not capped at maxImageCount
ImageCount_uncapped(capabilities) ==
    (capabilities.minImageCount + 1) % (UINT32_MAX + 1)

\* const uint32_t image_count = std::min(minImageCount + 1, maxImageCount)
ImageCount(capabilities) ==
    LET a == (capabilities.minImageCount + 1) % (UINT32_MAX + 1)
        b == capabilities.maxImageCount
    IN  IF b < a THEN b ELSE a

\* mutant: only the format list is checked
NoSuitableSwapchain_formatsOnly(surface) == surface.formats = <<>>

\* the check that makes create_swapchain throw
NoSuitableSwapchain(surface) ==
    surface.formats = <<>> \/ surface.present_modes = <<>>

\* the handle vkCreateSwapchainKHR returns after handle h was destroyed
NewSwapchain(h) == (h + 1) % NumSwapchains

\* create_image_views: one view per image of the swapchain
CreateImageViews(swapchain, count, format) ==
    [i \in 1 .. count |->
        [swapchain |-> swapchain, image |-> i - 1, format |-> format.format]]

\* mutant: the framebuffers are created with width and height exchanged
CreateFramebuffers_swapped(views, extent) ==
    [i \in 1 .. Len(views) |->
        [handle |-> [swapchain |-> views[i].swapchain, image |-> views[i].image],
         view |-> views[i], width |-> extent.height, height |-> extent.width]]

\* create_framebuffers: one framebuffer per image view
CreateFramebuffers(views, extent) ==
    [i \in 1 .. Len(views) |->
        [handle |-> [swapchain |-> views[i].swapchain, image |-> views[i].image],
         view |-> views[i], width |-> extent.width, height |-> extent.height]]

\* find queue families: the loop over the families of the physical device,
\* from index idx on, with the indices found so far
RECURSIVE FindQueueFamilies(_, _, _)
FindQueueFamilies(found, families, idx) ==
    IF idx > Len(families) THEN found
    ELSE LET support_gfx == families[idx].gfx
             support_presentation == families[idx].present
             now == [gfx_family |-> IF support_gfx THEN idx - 1
                                    ELSE found.gfx_family,
                     present_family |-> IF support_presentation THEN idx - 1
                                        ELSE found.present_family]
         IN  IF support_gfx /\ support_presentation THEN now
             ELSE FindQueueFamilies(now, families, idx + 1)

\* mutant: the images are never shared between queue families
SharingMode_exclusive(family) ==
    [imageSharingMode |-> VK_SHARING_MODE_EXCLUSIVE, queueFamilyIndices |-> <<>>]

\* info.imageSharingMode and the queue family indices handed over with it
SharingMode(family) ==
    IF family.gfx_family = family.present_family
    THEN [imageSharingMode |-> VK_SHARING_MODE_EXCLUSIVE,
          queueFamilyIndices |-> <<>>]
    ELSE [imageSharingMode |-> VK_SHARING_MODE_CONCURRENT,
          queueFamilyIndices |-> <<family.gfx_family, family.present_family>>]

\* what create_swapchain, create_image_views and create_framebuffers leave in
\* the statics, given the values the statics had and what the surface reports
CreateSwapchain(curFormat, curMode, surface, handle, family) ==
    LET format == SelectFormat(curFormat, surface.formats)
        mode   == SelectMode(curMode, surface.present_modes)
        extent == SelectExtent(surface.capabilities, surface.window)
        count  == ImageCount(surface.capabilities)
        views  == CreateImageViews(handle, count, format)
    IN  [swapchain |-> handle, format |-> format, mode |-> mode,
         extent |-> extent, images |-> count, views |-> views,
         framebuffers |-> CreateFramebuffers(views, extent),
         info |-> [minImageCount |-> count,
                   imageFormat |-> format.format,
                   imageColorSpace |-> format.colorSpace,
                   imageExtent |-> extent,
                   presentMode |-> mode,
                   sharing |-> SharingMode(family)]]

\* VkSwapchainCreateInfoKHR info{}; before anything is assigned
NoInfo ==
    [minImageCount |-> 0, imageFormat |-> ZeroFormat.format,
     imageColorSpace |-> ZeroFormat.colorSpace,
     imageExtent |-> [width |-> 0, height |-> 0],
     presentMode |-> VK_PRESENT_MODE_FIFO_KHR,
     sharing |-> [imageSharingMode |-> VK_SHARING_MODE_EXCLUSIVE,
                  queueFamilyIndices |-> <<>>]]

\* run() before it has created the render pass
NoRenderPass == [format |-> "VK_FORMAT_UNDEFINED"]

\* run(), create render pass: the one attachment has the format that
\* _swapchain_format holds when run() gets there
CreateRenderPass(format) == [format |-> format.format]

\* mutant: cleanup_swapchain destroys the semaphores and the fences as well
CleanupSwapchain_all(objects) == objects \ (SwapchainObjects \cup SyncObjects)

\* cleanup_swapchain: destroys the framebuffers, the image views and the
\* swapchain
CleanupSwapchain(objects) == objects \ SwapchainObjects

(* ---------------------------------------------------------------------- *)
(* Initial state: run() has finished its setup and enters the main loop,    *)
(* or create_swapchain has thrown during the setup                          *)
(* ---------------------------------------------------------------------- *)
Init ==
    \E surface \in Surfaces :
        LET family == FindQueueFamilies(NoFamily, DeviceFamilies, 1)
            new == CreateSwapchain(ZeroFormat, VK_PRESENT_MODE_FIFO_KHR, surface, 0,
                                   family)
            ok  == ~NoSuitableSwapchain(surface)
        IN  /\ pc = IF ok THEN "loop" ELSE "failed"
            /\ _swapchain_support = surface
            /\ _queue_family = family
            /\ swapchain_info = IF ok THEN new.info ELSE NoInfo
            /\ _render_pass = IF ok THEN CreateRenderPass(new.format)
                                     ELSE NoRenderPass
            /\ live = IF ok THEN {"device"} \cup SwapchainObjects \cup SyncObjects
                             ELSE {"device"}
            /\ out_of_date = FALSE
            /\ deferred = "none"
            /\ exit_code = IF ok THEN -1 ELSE EXIT_FAILURE
            /\ running = TRUE
            /\ _current_frame = 0
            /\ _window_resized = FALSE
            /\ res = VK_SUCCESS
            /\ image_idx = 0
            /\ ret = "none"
            /\ _swapchain = 0
            /\ _swapchain_format = IF ok THEN new.format ELSE ZeroFormat
            /\ _swapchain_mode = IF ok THEN new.mode ELSE VK_PRESENT_MODE_FIFO_KHR
            /\ _swapchain_extent = IF ok THEN new.extent ELSE [width |-> 0, height |-> 0]
            /\ _swapchain_images = IF ok THEN new.images ELSE 0
            /\ _swapchain_image_views = IF ok THEN new.views ELSE <<>>
            /\ _framebuffers = IF ok THEN new.framebuffers ELSE <<>>
            /\ _command_buffer = [s \in Slots |-> InitialCommand]
            /\ _mapped_uniform_buffers = [s \in Slots |-> "unwritten"]
            /\ _in_flight = [s \in Slots |-> ok]
            /\ _image_available = [s \in Slots |-> FALSE]
            /\ _render_finished = [s \in Slots |-> 0]
            /\ gfx_queue = <<>>
            /\ present_queue = <<>>
            /\ destroyed = {}
            /\ device_destroyed = FALSE
            /\ minimized = FALSE
            /\ tick = NoTick
            /\ prev_tick = NoTick
            /\ resize_polled = "none"

(* ---------------------------------------------------------------------- *)
(* run(): the event loop                                                    *)
(* ---------------------------------------------------------------------- *)
\* SDL_Event is a union: event.window.type is the same word as event.type
Event(type, id) == [type |-> type, window |-> [type |-> type, event |-> id]]

Events ==
    { Event(SDL_QUIT, 0),
      Event(SDL_WINDOWEVENT, SDL_WINDOWEVENT_RESIZED),
      Event(SDL_WINDOWEVENT, SDL_WINDOWEVENT_EXPOSED) }

Batches == UNION { [1 .. n -> Events] : n \in 0 .. MaxEvents }

\* the switch (event.type) of the event loop, on st = [running, resized]
HandleEvent(st, event) ==
    IF event.type = SDL_QUIT
    THEN [st EXCEPT !.running = FALSE]
    ELSE IF event.type = SDL_WINDOWEVENT
         THEN IF event.window.type = SDL_WINDOWEVENT_RESIZED
              THEN [st EXCEPT !.resized = TRUE]
              ELSE st
         ELSE st

\* while (SDL_PollEvent(&event)) { ... }
RECURSIVE PollLoop(_, _)
PollLoop(st, batch) ==
    IF batch = <<>> THEN st
    ELSE PollLoop(HandleEvent(st, Head(batch)), Tail(batch))

\* a window-resized event is among the polled events
HasResizeEvent(batch) ==
    \E i \in 1 .. Len(batch) :
        /\ batch[i].type = SDL_WINDOWEVENT
        /\ batch[i].window.event = SDL_WINDOWEVENT_RESIZED

\* mutant: the loop is left as soon as the quit was polled
AfterPoll_checked(run) == IF run THEN "wait_fence" ELSE "loop"

\* what follows the poll loop in the body of while (running): the call of
\* draw_frame(), whatever the events have made of running
AfterPoll(run) == "wait_fence"

\* One pass of while (running): poll every queued event, then call
\* draw_frame().  SDL updates the window flags while it pumps the events.
PollEvents ==
    /\ pc = "loop"
    /\ running
    /\ \E batch \in Batches, m \in BOOLEAN :
         LET st == PollLoop([running |-> running, resized |-> _window_resized], batch)
         IN  /\ running' = st.running
             /\ _window_resized' = st.resized
             /\ minimized' = m
             /\ resize_polled' =
                  IF HasResizeEvent(batch)
                  THEN (IF m THEN "minimized" ELSE "visible")
                  ELSE resize_polled
    /\ pc' = AfterPoll(running')
    /\ prev_tick' = [NoTick EXCEPT !.slot = tick.slot, !.outcome = tick.outcome]
    /\ tick' = [slot |-> _current_frame, outcome |-> "running",
                recreate |-> "none", did |-> {}, served |-> "none"]
    /\ UNCHANGED <<exit_code, _current_frame, res, image_idx, ret, swapchainVars,
                   _command_buffer, _mapped_uniform_buffers, syncVars, gpuVars,
                   device_destroyed, out_of_date, deferred>>

\* mutant: the device-idle wait is missing
DeviceWaitIdle_missing == TRUE

\* vkDeviceWaitIdle returns: no queue of the device has an operation left
DeviceWaitIdle == gfx_queue = <<>> /\ present_queue = <<>>

\* The loop has ended: wait for the device, destroy every object, return.
Teardown ==
    /\ pc = "loop"
    /\ ~running
    /\ DeviceWaitIdle
    /\ destroyed' = destroyed \cup {_swapchain}
    /\ live' = {}
    /\ device_destroyed' = TRUE
    /\ exit_code' = EXIT_SUCCESS
    /\ pc' = "done"
    /\ UNCHANGED <<running, _current_frame, _window_resized, res, image_idx, ret,
                   _swapchain, _swapchain_format, _swapchain_mode, _swapchain_extent,
                   _swapchain_images, _swapchain_image_views, _framebuffers,
                   _swapchain_support, _queue_family, swapchain_info,
                   _render_pass, _command_buffer, _mapped_uniform_buffers,
                   syncVars, gpuVars, minimized, out_of_date, histVars>>

(* ---------------------------------------------------------------------- *)
(* draw_frame                                                               *)
(* ---------------------------------------------------------------------- *)
\* mutant: draw_frame does not wait for the fence
FenceSignaled_nowait(slot) == TRUE

\* vkWaitForFences(..., &_in_flight[slot], VK_TRUE, UINT64_MAX) returns
FenceSignaled(slot) == _in_flight[slot]

\* vkWaitForFences on the fence of the current slot (blocking)
WaitForFences ==
    /\ pc = "wait_fence"
    /\ FenceSignaled(_current_frame)
    /\ pc' = "acquire"
    /\ UNCHANGED <<running, exit_code, _current_frame, _window_resized, res,
                   image_idx, ret, swapchainVars, _command_buffer,
                   _mapped_uniform_buffers, syncVars, gpuVars, device_destroyed,
                   minimized, out_of_date, histVars>>

\* the images of the current swapchain that no pending operation uses
FreeImages ==
    { i \in 0 .. (_swapchain_images - 1) :
        /\ \A k \in 1 .. Len(gfx_queue) :
             ~ (/\ gfx_queue[k].cmd.framebuffer.swapchain = _swapchain
                /\ gfx_queue[k].cmd.framebuffer.image = i)
        /\ \A k \in 1 .. Len(present_queue) :
             ~ (/\ present_queue[k].swapchain = _swapchain
                /\ present_queue[k].image = i) }

\* mutant: the fence is reset before the result of acquire is checked
ReachesResetFences_any(r) == TRUE

\* the acquire results with which draw_frame goes on to vkResetFences
ReachesResetFences(r) == r = VK_SUCCESS \/ r = VK_SUBOPTIMAL_KHR

\* mutant: the fence is never reset
ResetFences_noop(fences, slot) == fences

\* vkResetFences(_logical_device, 1, &_in_flight[slot])
ResetFences(fences, slot) == [fences EXCEPT ![slot] = FALSE]

\* vkAcquireNextImageKHR with the slot's image-available semaphore, the
\* check of its result, and vkResetFences
AcquireNextImage ==
    /\ pc = "acquire"
    /\ \E r \in AcquireResults :
         /\ res' = r
         /\ out_of_date' = (out_of_date \/ r = VK_ERROR_OUT_OF_DATE_KHR)
         /\ _in_flight' = IF ReachesResetFences(r)
                          THEN ResetFences(_in_flight, _current_frame)
                          ELSE _in_flight
         /\ tick' = [tick EXCEPT
                        !.outcome = IF r = VK_ERROR_OUT_OF_DATE_KHR THEN "skipped" ELSE @,
                        !.did = IF ReachesResetFences(r) THEN @ \cup {"reset_fence"} ELSE @]
         /\ IF r = VK_ERROR_OUT_OF_DATE_KHR
            THEN /\ pc' = "recreate"
                 /\ ret' = "acquire"
                 /\ UNCHANGED <<image_idx, _image_available, exit_code>>
            ELSE IF r # VK_SUCCESS /\ r # VK_SUBOPTIMAL_KHR
            THEN /\ pc' = "failed"
                 /\ exit_code' = EXIT_FAILURE
                 /\ UNCHANGED <<image_idx, _image_available, ret>>
            ELSE /\ \E i \in FreeImages : image_idx' = i
                 /\ _image_available' = [_image_available EXCEPT ![_current_frame] = TRUE]
                 /\ pc' = "submit"
                 /\ UNCHANGED <<exit_code, ret>>
    /\ UNCHANGED <<running, _current_frame, _window_resized, swapchainVars,
                   _command_buffer, _mapped_uniform_buffers, _render_finished,
                   gpuVars, device_destroyed, minimized, prev_tick, resize_polled,
                   deferred>>

\* mutant: record_command always takes the first framebuffer
RecordCommand_first(idx) ==
    [framebuffer |-> _framebuffers[1].handle,
     descriptor_set |-> _current_frame]

\* record_command: what the command buffer refers to once recorded
RecordCommand(idx) ==
    [framebuffer |-> _framebuffers[idx + 1].handle,
     descriptor_set |-> _current_frame]

\* VkSubmitInfo submit and the fence of vkQueueSubmit: the semaphore waited
\* on, the semaphore and the fence signaled, each named by its slot
SubmitInfo(frame, cmd) ==
    [slot |-> frame, cmd |-> cmd, wait |-> frame, signal |-> frame,
     fence |-> frame]

\* update_ubos, vkResetCommandBuffer, record_command and vkQueueSubmit
Submit ==
    /\ pc = "submit"
    /\ _mapped_uniform_buffers' =
         [_mapped_uniform_buffers EXCEPT ![_current_frame] = "written"]
    /\ \E recorded \in BOOLEAN, r \in SubmitResults :
         IF ~recorded
         THEN /\ _command_buffer' = [_command_buffer EXCEPT ![_current_frame] = InitialCommand]
              /\ pc' = "failed"
              /\ exit_code' = EXIT_FAILURE
              /\ tick' = [tick EXCEPT !.did = @ \cup {"update_ubos", "reset_command"}]
              /\ UNCHANGED gfx_queue
         ELSE /\ _command_buffer' =
                   [_command_buffer EXCEPT ![_current_frame] = RecordCommand(image_idx)]
              /\ IF r = VK_SUCCESS
                 THEN /\ gfx_queue' = Append(gfx_queue,
                              SubmitInfo(_current_frame, RecordCommand(image_idx)))
                      /\ pc' = "present"
                      /\ tick' = [tick EXCEPT !.did = @ \cup
                                    {"update_ubos", "reset_command", "record", "submit"}]
                      /\ UNCHANGED exit_code
                 ELSE /\ pc' = "failed"
                      /\ exit_code' = EXIT_FAILURE
                      /\ tick' = [tick EXCEPT !.did = @ \cup
                                    {"update_ubos", "reset_command", "record"}]
                      /\ UNCHANGED gfx_queue
    /\ UNCHANGED <<running, _current_frame, _window_resized, res, image_idx, ret,
                   swapchainVars, syncVars, present_queue, device_destroyed,
                   minimized, out_of_date, prev_tick, resize_polled, deferred>>

\* mutant: a suboptimal present does not recreate
NeedsRecreate_noSuboptimal(r, resized) ==
    r = VK_ERROR_OUT_OF_DATE_KHR \/ resized

\* mutant: the branch to recreate_swapchain is taken on every present result
NeedsRecreate_always(r, resized) == TRUE

\* the condition of the if after vkQueuePresentKHR
NeedsRecreate(r, resized) ==
    r = VK_ERROR_OUT_OF_DATE_KHR \/ r = VK_SUBOPTIMAL_KHR \/ resized

\* mutant: the present waits on the render-finished semaphore of the other slot
PresentInfo_otherSemaphore(frame, swapchain, idx) ==
    [slot |-> frame, wait |-> (frame + 1) % MAX_FRAMES_IN_FLIGHT,
     swapchain |-> swapchain, image |-> idx]

\* VkPresentInfoKHR present: the render-finished semaphore waited on (named
\* by its slot), the swapchain and the image index
PresentInfo(frame, swapchain, idx) ==
    [slot |-> frame, wait |-> frame, swapchain |-> swapchain, image |-> idx]

\* what vkQueuePresentKHR can return: once the swapchain is out of date,
\* every further present on it fails (VK_ERROR_OUT_OF_DATE_KHR or worse)
PresentResultsOf(stale) ==
    IF stale THEN {VK_ERROR_OUT_OF_DATE_KHR, VK_ERROR_DEVICE_LOST}
    ELSE PresentResults

\* vkQueuePresentKHR and the check of its result
Present ==
    /\ pc = "present"
    /\ \E r \in PresentResultsOf(out_of_date) :
         /\ res' = r
         /\ out_of_date' = (out_of_date \/ r = VK_ERROR_OUT_OF_DATE_KHR)
         /\ present_queue' =
              IF r \in {VK_SUCCESS, VK_SUBOPTIMAL_KHR, VK_ERROR_OUT_OF_DATE_KHR}
              THEN Append(present_queue,
                          PresentInfo(_current_frame, _swapchain, image_idx))
              ELSE present_queue
         /\ IF NeedsRecreate(r, _window_resized)
            THEN pc' = "recreate" /\ ret' = "present" /\ UNCHANGED exit_code
            ELSE IF r # VK_SUCCESS
            THEN pc' = "failed" /\ exit_code' = EXIT_FAILURE /\ UNCHANGED ret
            ELSE pc' = "advance" /\ UNCHANGED <<exit_code, ret>>
    /\ tick' = [tick EXCEPT !.did = @ \cup {"present"}]
    /\ UNCHANGED <<running, _current_frame, _window_resized, image_idx,
                   swapchainVars, _command_buffer, _mapped_uniform_buffers,
                   syncVars, gfx_queue, device_destroyed, minimized, prev_tick,
                   resize_polled, deferred>>

\* mutant: the slot index is not advanced
NextFrame_stuck(frame) == frame

\* _current_frame = (_current_frame + 1) % MAX_FRAMES_IN_FLIGHT
NextFrame(frame) == (frame + 1) % MAX_FRAMES_IN_FLIGHT

\* the last statement of draw_frame, then back to while (running)
Advance ==
    /\ pc = "advance"
    /\ _current_frame' = NextFrame(_current_frame)
    /\ tick' = [tick EXCEPT !.outcome = "completed"]
    /\ pc' = "loop"
    /\ res' = VK_SUCCESS
    /\ image_idx' = 0
    /\ UNCHANGED <<running, exit_code, _window_resized, ret,
                   swapchainVars, _command_buffer, _mapped_uniform_buffers,
                   syncVars, gpuVars, device_destroyed, minimized, out_of_date,
                   prev_tick, resize_polled, deferred>>

(* ---------------------------------------------------------------------- *)
(* recreate_swapchain                                                       *)
(* ---------------------------------------------------------------------- *)
\* mutant: recreate_swapchain does not look at the window flags
WindowMinimized_unchecked == FALSE

\* mutant: recreate_swapchain returns at once whatever the window flags say
WindowMinimized_always == TRUE

\* if (SDL_GetWindowFlags(_window) & SDL_WINDOW_MINIMIZED) return;
WindowMinimized == minimized

\* mutant: the return after the recreation on acquire out-of-date is missing
AfterRecreate_noreturn(site) == "advance"

\* where draw_frame goes on after recreate_swapchain returns: the call after
\* acquire is followed by return, the call after present by the advance
AfterRecreate(site) == IF site = "acquire" THEN "loop" ELSE "advance"

\* the condition of draw_frame that made it call recreate_swapchain
Requester(site, r) ==
    IF site = "acquire" THEN "acquire_out_of_date"
    ELSE IF r = VK_ERROR_OUT_OF_DATE_KHR THEN "present_out_of_date"
    ELSE IF r = VK_SUBOPTIMAL_KHR THEN "present_suboptimal"
    ELSE "window_resized"

\* recreate_swapchain with the window minimized: returns at once
RecreateSkipped ==
    /\ pc = "recreate"
    /\ WindowMinimized
    /\ pc' = AfterRecreate(ret)
    /\ ret' = "none"
    /\ tick' = [tick EXCEPT !.recreate = "skipped"]
    /\ deferred' = Requester(ret, res)
    /\ res' = IF AfterRecreate(ret) = "loop" THEN VK_SUCCESS ELSE res
    /\ image_idx' = IF AfterRecreate(ret) = "loop" THEN 0 ELSE image_idx
    /\ UNCHANGED <<running, exit_code, _current_frame, _window_resized,
                   swapchainVars, _command_buffer,
                   _mapped_uniform_buffers, syncVars, gpuVars, device_destroyed,
                   minimized, out_of_date, prev_tick, resize_polled>>

\* recreate_swapchain otherwise: vkDeviceWaitIdle, cleanup_swapchain,
\* create_swapchain, create_image_views, create_framebuffers, clear the flag
RecreateSwapchain ==
    /\ pc = "recreate"
    /\ ~WindowMinimized
    /\ DeviceWaitIdle
    /\ \E surface \in Surfaces :
         LET handle == NewSwapchain(_swapchain)
             new == CreateSwapchain(_swapchain_format, _swapchain_mode, surface,
                                    handle, _queue_family)
         IN  IF NoSuitableSwapchain(surface)
             THEN /\ destroyed' = destroyed \cup {_swapchain}
                  /\ live' = CleanupSwapchain(live)
                  /\ _swapchain_support' = surface
                  /\ pc' = "failed"
                  /\ exit_code' = EXIT_FAILURE
                  /\ tick' = [tick EXCEPT !.recreate = "threw"]
                  /\ UNCHANGED <<_swapchain, _swapchain_format, _swapchain_mode,
                                 _swapchain_extent, _swapchain_images,
                                 _swapchain_image_views, _framebuffers,
                                 swapchain_info, _window_resized, ret,
                                 resize_polled, res, image_idx, out_of_date,
                                 deferred>>
             ELSE /\ destroyed' = (destroyed \cup {_swapchain}) \ {handle}
                  /\ live' = CleanupSwapchain(live) \cup SwapchainObjects
                  /\ _swapchain_support' = surface
                  /\ swapchain_info' = new.info
                  /\ out_of_date' = FALSE
                  /\ deferred' = "none"
                  /\ _swapchain' = new.swapchain
                  /\ _swapchain_format' = new.format
                  /\ _swapchain_mode' = new.mode
                  /\ _swapchain_extent' = new.extent
                  /\ _swapchain_images' = new.images
                  /\ _swapchain_image_views' = new.views
                  /\ _framebuffers' = new.framebuffers
                  /\ _window_resized' = FALSE
                  /\ resize_polled' = "none"
                  /\ tick' = [tick EXCEPT !.recreate = "full", !.served = deferred]
                  /\ pc' = AfterRecreate(ret)
                  /\ ret' = "none"
                  /\ res' = IF AfterRecreate(ret) = "loop" THEN VK_SUCCESS ELSE res
                  /\ image_idx' = IF AfterRecreate(ret) = "loop" THEN 0 ELSE image_idx
                  /\ UNCHANGED exit_code
    /\ UNCHANGED <<running, _current_frame, _command_buffer, _queue_family,
                   _render_pass, _mapped_uniform_buffers, syncVars, gpuVars,
                   device_destroyed, minimized, prev_tick>>

(* ---------------------------------------------------------------------- *)
(* The GPU                                                                  *)
(* ---------------------------------------------------------------------- *)
\* The graphics queue completes its oldest submission: it has waited on the
\* semaphore the submission waits on, and signals the semaphore and the fence
\* the submission names.
GpuExecute ==
    /\ gfx_queue # <<>>
    /\ LET op == Head(gfx_queue)
       IN  /\ _image_available[op.wait]
           /\ _image_available' = [_image_available EXCEPT ![op.wait] = FALSE]
           /\ _render_finished' = [_render_finished EXCEPT ![op.signal] = @ + 1]
           /\ _in_flight' = [_in_flight EXCEPT ![op.fence] = TRUE]
    /\ gfx_queue' = Tail(gfx_queue)
    /\ UNCHANGED <<pc, running, exit_code, _current_frame, _window_resized, res,
                   image_idx, ret, swapchainVars, _command_buffer,
                   _mapped_uniform_buffers, present_queue, device_destroyed,
                   minimized, out_of_date, histVars>>

\* The present queue completes its oldest present: it has waited on the
\* render-finished semaphore the present names.
GpuPresent ==
    /\ present_queue # <<>>
    /\ LET op == Head(present_queue)
       IN  /\ _render_finished[op.wait] > 0
           /\ _render_finished' = [_render_finished EXCEPT ![op.wait] = @ - 1]
    /\ present_queue' = Tail(present_queue)
    /\ UNCHANGED <<pc, running, exit_code, _current_frame, _window_resized, res,
                   image_idx, ret, swapchainVars, _command_buffer,
                   _mapped_uniform_buffers, _in_flight, _image_available,
                   gfx_queue, device_destroyed, minimized, out_of_date, histVars>>

(* ---------------------------------------------------------------------- *)
(* Specification                                                            *)
(* ---------------------------------------------------------------------- *)
Next ==
    \/ PollEvents
    \/ Teardown
    \/ WaitForFences
    \/ AcquireNextImage
    \/ Submit
    \/ Present
    \/ Advance
    \/ RecreateSkipped
    \/ RecreateSwapchain
    \/ GpuExecute
    \/ GpuPresent

Spec == Init /\ [][Next]_vars

\* the GPU makes progress on what was submitted to it, and the CPU thread
\* returns from vkWaitForFences once the fence is signaled
FairSpec ==
    Spec /\ WF_vars(GpuExecute) /\ WF_vars(GpuPresent) /\ WF_vars(WaitForFences)

(* ---------------------------------------------------------------------- *)
(* create_swapchain on its own: the three creators called again and again,  *)
(* as run() calls them once and recreate_swapchain at every recreation, on  *)
(* whatever the surface, the window and the device report                   *)
(* ---------------------------------------------------------------------- *)
\* the preferred format code with another colour space
WideFormat ==
    [format |-> "VK_FORMAT_B8G8R8A8_SRGB",
     colorSpace |-> "VK_COLOR_SPACE_DISPLAY_P3_NONLINEAR_EXT"]

VK_PRESENT_MODE_IMMEDIATE_KHR == "VK_PRESENT_MODE_IMMEDIATE_KHR"

\* vkGetPhysicalDeviceSurfaceFormatsKHR
FormatLists ==
    { <<OtherFormat>>, <<OtherFormat, PreferredFormat>>, <<WideFormat, OtherFormat>> }

\* vkGetPhysicalDeviceSurfacePresentModesKHR
ModeLists ==
    { <<VK_PRESENT_MODE_FIFO_KHR>>,
      <<VK_PRESENT_MODE_FIFO_KHR, VK_PRESENT_MODE_MAILBOX_KHR>>,
      <<VK_PRESENT_MODE_MAILBOX_KHR, VK_PRESENT_MODE_IMMEDIATE_KHR>> }

\* minImageCount and maxImageCount of VkSurfaceCapabilitiesKHR; a
\* maxImageCount of 0 says that the surface sets no upper limit
ImageCounts ==
    { c \in [minImageCount : 1 .. (MaxImageCount - 1),
             maxImageCount : 0 .. MaxImageCount] :
        c.maxImageCount = 0 \/ c.minImageCount <= c.maxImageCount }

\* currentExtent of VkSurfaceCapabilitiesKHR with SDL_Vulkan_GetDrawableSize
ExtentsAndWindows ==
    { [currentExtent |-> [width |-> 8, height |-> 6],
       window |-> [width |-> 8, height |-> 6]],
      [currentExtent |-> [width |-> UINT32_MAX, height |-> UINT32_MAX],
       window |-> [width |-> 20, height |-> 4]],
      [currentExtent |-> [width |-> UINT32_MAX, height |-> UINT32_MAX],
       window |-> [width |-> 0, height |-> 0]] }

\* a surface that reports at least one format and one present mode
SuitableSurfaces ==
    { [formats |-> f, present_modes |-> m,
       capabilities |-> [minImageCount |-> c.minImageCount,
                         maxImageCount |-> c.maxImageCount,
                         currentExtent |-> e.currentExtent,
                         minImageExtent |-> [width |-> 2, height |-> 2],
                         maxImageExtent |-> [width |-> 16, height |-> 16]],
       window |-> e.window] :
        f \in FormatLists, m \in ModeLists, c \in ImageCounts,
        e \in ExtentsAndWindows }

\* a surface that reports no format, no present mode, or neither
UnsuitableSurfaces ==
    { [NoSupport EXCEPT !.formats = f, !.present_modes = m] :
        f \in {<<>>, <<PreferredFormat>>},
        m \in {<<>>, <<VK_PRESENT_MODE_FIFO_KHR>>} }
    \ { [NoSupport EXCEPT !.formats = <<PreferredFormat>>,
                          !.present_modes = <<VK_PRESENT_MODE_FIFO_KHR>>] }

\* what the surface and the window can report to one call of create_swapchain
CreateSurfaces == SuitableSurfaces \cup UnsuitableSurfaces

\* the queue families a physical device can have, each with a graphics and a
\* presentation family among them
FamilyLists ==
    { <<[gfx |-> FALSE, present |-> TRUE], [gfx |-> TRUE, present |-> FALSE]>>,
      <<[gfx |-> TRUE, present |-> FALSE], [gfx |-> TRUE, present |-> TRUE]>> }

\* run() has found the queue families and is about to call create_swapchain
\* for the first time
CreateInit ==
    /\ pc = "create"
    /\ \E families \in FamilyLists :
         _queue_family = FindQueueFamilies(NoFamily, families, 1)
    /\ _swapchain_support = NoSupport
    /\ swapchain_info = NoInfo
    /\ _render_pass = NoRenderPass
    /\ live = {"device"}
    /\ exit_code = -1
    /\ running = TRUE
    /\ _current_frame = 0
    /\ _window_resized = FALSE
    /\ res = VK_SUCCESS
    /\ image_idx = 0
    /\ ret = "none"
    /\ _swapchain = 0
    /\ _swapchain_format = ZeroFormat
    /\ _swapchain_mode = VK_PRESENT_MODE_FIFO_KHR
    /\ _swapchain_extent = [width |-> 0, height |-> 0]
    /\ _swapchain_images = 0
    /\ _swapchain_image_views = <<>>
    /\ _framebuffers = <<>>
    /\ _command_buffer = [s \in Slots |-> InitialCommand]
    /\ _mapped_uniform_buffers = [s \in Slots |-> "unwritten"]
    /\ _in_flight = [s \in Slots |-> FALSE]
    /\ _image_available = [s \in Slots |-> FALSE]
    /\ _render_finished = [s \in Slots |-> 0]
    /\ gfx_queue = <<>>
    /\ present_queue = <<>>
    /\ destroyed = {}
    /\ device_destroyed = FALSE
    /\ minimized = FALSE
    /\ out_of_date = FALSE
    /\ tick = NoTick
    /\ prev_tick = NoTick
    /\ resize_polled = "none"
    /\ deferred = "none"

\* cleanup_swapchain if there is a swapchain, then create_swapchain,
\* create_image_views and create_framebuffers; run() creates the render pass
\* after the first of them
CreateCall ==
    /\ pc = "create"
    /\ \E surface \in CreateSurfaces :
         LET first == "swapchain" \notin live
             handle == IF first THEN 0 ELSE NewSwapchain(_swapchain)
             gone == IF first THEN destroyed ELSE destroyed \cup {_swapchain}
             new == CreateSwapchain(_swapchain_format, _swapchain_mode, surface,
                                    handle, _queue_family)
         IN  /\ _swapchain_support' = surface
             /\ IF NoSuitableSwapchain(surface)
                THEN /\ destroyed' = gone
                     /\ live' = CleanupSwapchain(live)
                     /\ pc' = "failed"
                     /\ exit_code' = EXIT_FAILURE
                     /\ UNCHANGED <<_swapchain, _swapchain_format, _swapchain_mode,
                                    _swapchain_extent, _swapchain_images,
                                    _swapchain_image_views, _framebuffers,
                                    swapchain_info, _render_pass>>
                ELSE /\ destroyed' = gone \ {handle}
                     /\ live' = CleanupSwapchain(live) \cup SwapchainObjects
                     /\ _swapchain' = new.swapchain
                     /\ _swapchain_format' = new.format
                     /\ _swapchain_mode' = new.mode
                     /\ _swapchain_extent' = new.extent
                     /\ _swapchain_images' = new.images
                     /\ _swapchain_image_views' = new.views
                     /\ _framebuffers' = new.framebuffers
                     /\ swapchain_info' = new.info
                     /\ _render_pass' = IF first THEN CreateRenderPass(new.format)
                                                 ELSE _render_pass
                     /\ UNCHANGED <<pc, exit_code>>
    /\ UNCHANGED <<running, _current_frame, _window_resized, res, image_idx, ret,
                   _queue_family, _command_buffer, _mapped_uniform_buffers,
                   syncVars, gpuVars, device_destroyed, minimized, out_of_date,
                   histVars>>

CreateNext == CreateCall

CreateSpec == CreateInit /\ [][CreateNext]_vars

TypeOK ==
    /\ pc \in {"loop", "wait_fence", "acquire", "submit", "present", "advance",
               "recreate", "done", "failed", "create"}
    /\ running \in BOOLEAN
    /\ _current_frame \in Slots
    /\ _window_resized \in BOOLEAN
    /\ _in_flight \in [Slots -> BOOLEAN]
    /\ _image_available \in [Slots -> BOOLEAN]
    /\ _render_finished \in [Slots -> 0 .. 3]
    /\ Len(gfx_queue) <= 3
    /\ Len(present_queue) <= 4

(* ---------------------------------------------------------------------- *)
(* Claims                                                                   *)
(* ---------------------------------------------------------------------- *)
\* the submissions of slot's command buffer that have not completed
Outstanding(slot) == { k \in 1 .. Len(gfx_queue) : gfx_queue[k].slot = slot }

\* a tick has started before the current one
HasPrevTick == prev_tick.slot # -1

\* C1 (as stated): every tick uses slot (previous tick's slot + 1) mod 2,
\* whatever the previous tick did.
C1_StrictCycle ==
    HasPrevTick => tick.slot = (prev_tick.slot + 1) % MAX_FRAMES_IN_FLIGHT

\* C1 (amended): a tick that follows a tick which ran to the end of
\* draw_frame uses slot (previous slot + 1) mod 2; a tick that follows a tick
\* skipped on acquire out-of-date uses the same slot again; during a tick the
\* slot index is the slot the tick started with.
C1_CycleExceptAfterSkip ==
    /\ HasPrevTick =>
         /\ prev_tick.outcome \in {"skipped", "completed"}
         /\ tick.slot = IF prev_tick.outcome = "skipped"
                        THEN prev_tick.slot
                        ELSE (prev_tick.slot + 1) % MAX_FRAMES_IN_FLIGHT
    /\ pc \in {"wait_fence", "acquire", "submit", "present", "recreate", "advance"}
         => _current_frame = tick.slot

\* C1 witness: a tick that recreated after present was followed by a tick on
\* the next slot, which was skipped, and the tick after it runs on that slot.
C1_Witness ==
    /\ prev_tick.outcome = "skipped"
    /\ tick.slot = prev_tick.slot
    /\ tick.slot = 1
    /\ pc = "submit"

\* C2: when draw_frame is about to reset and re-record the command buffer of
\* the current slot, no earlier submission of that command buffer is still
\* incomplete on the GPU.
C2_ResetOnlyWhenComplete ==
    pc = "submit" => Outstanding(_current_frame) = {}

\* C2 witness: the command buffer of the slot was submitted before, the
\* previous tick was skipped, and the other slot's work is still running.
C2_Witness ==
    /\ pc = "submit"
    /\ _command_buffer[_current_frame] # InitialCommand
    /\ prev_tick.outcome = "skipped"
    /\ gfx_queue # <<>>

\* C3: each slot has at most one submission that is not fence-complete, so
\* at most MAX_FRAMES_IN_FLIGHT submissions are outstanding.
C3_OneSubmissionPerSlot ==
    /\ \A s \in Slots : Cardinality(Outstanding(s)) <= 1
    /\ Len(gfx_queue) <= MAX_FRAMES_IN_FLIGHT

\* C3 witness: both slots have a submission outstanding.
C3_Witness ==
    \A s \in Slots : Cardinality(Outstanding(s)) = 1

\* C4: at the fence wait that starts a tick, the fence of the current slot
\* is signaled, or a submission that will signal it is on the queue and the
\* semaphore that submission waits on has been signaled by its acquire.
C4_FenceWaitReturns ==
    pc = "wait_fence" =>
        \/ _in_flight[_current_frame]
        \/ \E k \in Outstanding(_current_frame) :
               \A j \in 1 .. k : _image_available[gfx_queue[j].slot]

\* Under FairSpec every fence wait returns (supports C4).
FenceWaitTerminates == (pc = "wait_fence") ~> (pc # "wait_fence")

\* C4 witness: the tick waits on a fence that is not signaled yet: the slot's
\* submission of two ticks ago is still running.
C4_Witness ==
    /\ pc = "wait_fence"
    /\ ~_in_flight[_current_frame]
    /\ prev_tick.outcome = "completed"
    /\ _mapped_uniform_buffers[_current_frame] = "written"

\* C5: no pending submission and no pending present refers to a swapchain
\* whose objects have been destroyed, and nothing is pending once the
\* teardown of run() has destroyed the objects.
C5_NoDestroyWhileInUse ==
    /\ \A k \in 1 .. Len(gfx_queue) :
         gfx_queue[k].cmd.framebuffer.swapchain \notin destroyed
    /\ \A k \in 1 .. Len(present_queue) :
         present_queue[k].swapchain \notin destroyed
    /\ device_destroyed => gfx_queue = <<>> /\ present_queue = <<>>

\* C5 witness: the last tick submitted, presented and then recreated the
\* swapchain, and the teardown has run after it.
C5_Witness ==
    /\ pc = "done"
    /\ device_destroyed
    /\ tick.recreate = "full"
    /\ "present" \in tick.did

\* C6: from the moment acquire reports out-of-date until the tick has ended,
\* the tick only calls recreate_swapchain: the slot's fence stays signaled,
\* no uniform write, command-buffer reset, recording, submit or present is
\* made, nothing of the slot is outstanding, the slot index is the one the
\* tick started with, and the tick ends at the loop (or in the fatal error
\* create_swapchain raises).
C6_SkippedTickHasNoOtherEffect ==
    tick.outcome = "skipped" =>
        /\ pc \in {"recreate", "loop", "done", "failed"}
        /\ tick.did = {}
        /\ _in_flight[tick.slot]
        /\ Outstanding(tick.slot) = {}
        /\ _current_frame = tick.slot
        /\ pc = "recreate" => ret = "acquire"
        /\ pc \in {"loop", "done"} => tick.recreate \in {"skipped", "full"}
        /\ pc = "failed" => tick.recreate = "threw"

\* C6 witness: a tick on slot 1 ended after acquire out-of-date and a full
\* recreation, with the uniform buffer and command buffer of the slot used
\* in an earlier tick.
C6_Witness ==
    /\ tick.outcome = "skipped"
    /\ tick.recreate = "full"
    /\ tick.slot = 1
    /\ pc = "loop"
    /\ _command_buffer[1] # InitialCommand

\* C7: in a tick that has reached present, recreate_swapchain is called if
\* and only if present reported out-of-date or suboptimal or the resize flag
\* is set; a successful present with the flag clear goes straight to the
\* advance; recreate_swapchain called there returns to the advance (or
\* raises the fatal error of create_swapchain); and whenever such a tick
\* returns to the loop the slot index has been advanced.
C7_RecreateAfterPresent ==
    /\ [][(pc = "present" /\ pc' # pc) =>
            /\ pc' = "recreate" <=>
                 (res' \in {VK_ERROR_OUT_OF_DATE_KHR, VK_SUBOPTIMAL_KHR}
                    \/ _window_resized)
            /\ pc' = "recreate" => ret' = "present"
            /\ (res' = VK_SUCCESS /\ ~_window_resized) => pc' = "advance"]_vars
    /\ [][(pc = "recreate" /\ ret = "present" /\ pc' # pc) =>
            pc' \in {"advance", "failed"}]_vars
    /\ [][(pc = "advance" /\ pc' # pc) =>
            /\ pc' = "loop"
            /\ _current_frame' = (_current_frame + 1) % MAX_FRAMES_IN_FLIGHT]_vars
    /\ [](("present" \in tick.did /\ pc \in {"loop", "done"}) =>
            /\ tick.outcome = "completed"
            /\ _current_frame = (tick.slot + 1) % MAX_FRAMES_IN_FLIGHT)

\* C7 witness: present reported suboptimal, the swapchain was recreated and
\* the tick is at the advance.
C7_Witness ==
    /\ pc = "advance"
    /\ res = VK_SUBOPTIMAL_KHR
    /\ tick.recreate = "full"
    /\ "present" \in tick.did

\* C8 (as stated): a polled window-resized event sets the resize flag, which
\* stays set until a recreation serves it, and a tick that reaches the
\* advance with the window not minimized has served it.
C8_ResizeEventSetsFlag ==
    /\ resize_polled # "none" => _window_resized
    /\ (pc = "advance" /\ ~minimized) => resize_polled = "none"

\* C9: the step recreate_swapchain takes with the window minimized changes
\* nothing but the control state: swapchain, images, views, framebuffers,
\* format, present mode, extent and resize flag are unchanged, nothing is
\* destroyed, and the call returns to its caller; it is taken without
\* waiting, whatever is still pending on the device.
C9_MinimizedRecreateIsNoOp ==
    /\ [][(pc = "recreate" /\ minimized /\ pc' # pc) =>
            /\ UNCHANGED swapchainVars
            /\ UNCHANGED <<_window_resized, _current_frame, gpuVars, syncVars,
                           _command_buffer, device_destroyed>>
            /\ pc' = (IF ret = "acquire" THEN "loop" ELSE "advance")]_vars
    /\ []((pc = "recreate" /\ minimized) => ENABLED RecreateSkipped)

\* C9 witness: recreate_swapchain has returned with the window minimized
\* while the submission of this tick is still running on the GPU.
C9_Witness ==
    /\ pc = "advance"
    /\ minimized
    /\ tick.recreate = "skipped"
    /\ Outstanding(tick.slot) # {}
    /\ present_queue # <<>>

\* C10 (as stated): a resize flagged while the window is minimized keeps the
\* flag set through the skipped recreations, and the first tick that runs
\* with the window no longer minimized recreates the swapchain.
C10_ResizeWhileMinimizedIsServed ==
    /\ resize_polled = "minimized" => _window_resized
    /\ (pc = "loop" /\ ~minimized /\ tick.outcome \in {"skipped", "completed"})
          => resize_polled # "minimized"

\* the requests for a recreation that came from VK_ERROR_OUT_OF_DATE_KHR
OutOfDateRequests == {"acquire_out_of_date", "present_out_of_date"}

C12_SwapchainIsOneUnit ==
    pc = "wait_fence" =>
        /\ Len(_framebuffers) = _swapchain_images
        /\ Len(_swapchain_image_views) = _swapchain_images
        /\ SwapchainObjects \subseteq live
        /\ _swapchain \notin destroyed
        /\ \A i \in 1 .. _swapchain_images :
             /\ _swapchain_image_views[i].swapchain = _swapchain
             /\ _swapchain_image_views[i].image = i - 1
             /\ _framebuffers[i].view = _swapchain_image_views[i]
             /\ _framebuffers[i].handle.swapchain = _swapchain
             /\ _framebuffers[i].width = _swapchain_extent.width
             /\ _framebuffers[i].height = _swapchain_extent.height

\* a tick starts after a full recreation and, later, a skipped one
C12_Witness ==
    /\ pc = "wait_fence"
    /\ _swapchain # 0
    /\ destroyed # {}
    /\ deferred # "none"
    /\ _swapchain_images > 0

\* C13: the per-slot semaphores and fences exist from startup on and are
\* destroyed once, all together, by the teardown of run(); a call of
\* recreate_swapchain (skipped, completed or ended by an exception) neither
\* destroys nor creates nor resets any of them, and leaves the command
\* buffers and the slot index as they were.
C13_SyncObjectsOutliveSwapchain ==
    /\ [][(pc = "recreate" /\ pc' # "recreate") =>
             /\ SyncObjects \subseteq live
             /\ SyncObjects \subseteq live'
             /\ UNCHANGED <<syncVars, _command_buffer, _current_frame>>]_vars
    /\ [][(SyncObjects \cap live) # (SyncObjects \cap live') =>
             /\ pc = "loop" /\ pc' = "done"
             /\ SyncObjects \subseteq live
             /\ SyncObjects \cap live' = {}]_vars
    /\ []((pc \notin {"done", "failed"}) => SyncObjects \subseteq live)

\* a full recreation has taken place in a tick on slot 1 whose command buffer
\* is recorded, and the synchronisation objects are still there
C13_Witness ==
    /\ pc = "advance"
    /\ tick.recreate = "full"
    /\ _current_frame = 1
    /\ _command_buffer[1] # InitialCommand
    /\ _command_buffer[0] # InitialCommand
    /\ SyncObjects \subseteq live

(* ---------------------------------------------------------------------- *)
(* Claims about create_swapchain, checked on CreateSpec                     *)
(* ---------------------------------------------------------------------- *)
\* a call of create_swapchain has returned
Created == pc = "create" /\ "swapchain" \in live

\* the elements of a list
Range(list) == { list[i] : i \in 1 .. Len(list) }

\* C14 (as stated): for every non-empty format list create_swapchain selects
\* the pair (B8G8R8A8_SRGB, SRGB_NONLINEAR) when the list has it and the
\* first entry of the list otherwise.
C14_PreferredOrFirstFormat ==
    Created =>
        _swapchain_format =
            IF PreferredFormat \in Range(_swapchain_support.formats)
            THEN PreferredFormat
            ELSE _swapchain_support.formats[1]

\* C15 (as stated): after every call of create_swapchain the selected present
\* mode is MAILBOX when the list just reported has MAILBOX, FIFO otherwise.
C15_MailboxOrFifo ==
    Created =>
        _swapchain_mode =
            IF VK_PRESENT_MODE_MAILBOX_KHR \in Range(_swapchain_support.present_modes)
            THEN VK_PRESENT_MODE_MAILBOX_KHR
            ELSE VK_PRESENT_MODE_FIFO_KHR

\* what the first call of create_swapchain in a fresh process selects when
\* it sees what the last call saw
FreshSelection ==
    CreateSwapchain(ZeroFormat, VK_PRESENT_MODE_FIFO_KHR, _swapchain_support,
                    _swapchain, _queue_family)

\* C16 (as stated): the selection has no memory: a call of create_swapchain
\* selects the format, present mode, extent and image count that the first
\* call of a fresh process selects from the same formats, modes,
\* capabilities and window size.
C16_SelectionHasNoMemory ==
    Created =>
        /\ _swapchain_format = FreshSelection.format
        /\ _swapchain_mode = FreshSelection.mode
        /\ _swapchain_extent = FreshSelection.extent
        /\ swapchain_info.minImageCount = FreshSelection.info.minImageCount

\* out is v clamped into [lo, hi]
IsClamped(out, v, lo, hi) ==
    /\ lo <= out /\ out <= hi
    /\ (lo <= v /\ v <= hi) => out = v
    /\ v < lo => out = lo
    /\ v > hi => out = hi

\* C17: when currentExtent.width is the uint32 maximum the chosen width and
\* height are the drawable width and height of the window, each clamped
\* into [minImageExtent, maxImageExtent]; otherwise the chosen extent is
\* exactly currentExtent.  The swapchain is created with the chosen extent.
C17_ExtentSelection ==
    Created =>
        LET caps == _swapchain_support.capabilities
            window == _swapchain_support.window
        IN  /\ swapchain_info.imageExtent = _swapchain_extent
            /\ IF caps.currentExtent.width = UINT32_MAX
               THEN /\ IsClamped(_swapchain_extent.width, window.width,
                                 caps.minImageExtent.width, caps.maxImageExtent.width)
                    /\ IsClamped(_swapchain_extent.height, window.height,
                                 caps.minImageExtent.height, caps.maxImageExtent.height)
               ELSE _swapchain_extent = caps.currentExtent

\* the window is wider than the surface allows and the width was cut down
C17_Witness ==
    /\ Created
    /\ _swapchain_support.capabilities.currentExtent.width = UINT32_MAX
    /\ _swapchain_support.window.width > _swapchain_support.capabilities.maxImageExtent.width
    /\ _swapchain_extent.width = _swapchain_support.capabilities.maxImageExtent.width
    /\ _swapchain_extent.height = _swapchain_support.window.height

\* C18: the image count the swapchain is requested with is
\* min(minImageCount + 1, maxImageCount), for every pair of the two values.
C18_ImageCountRequested ==
    Created =>
        LET caps == _swapchain_support.capabilities
        IN  swapchain_info.minImageCount =
                IF caps.minImageCount + 1 <= caps.maxImageCount
                THEN caps.minImageCount + 1
                ELSE caps.maxImageCount

\* the surface maximum is below minImageCount + 1 and is what was requested
C18_Witness ==
    /\ Created
    /\ _swapchain_support.capabilities.maxImageCount > 0
    /\ _swapchain_support.capabilities.maxImageCount
         < _swapchain_support.capabilities.minImageCount + 1
    /\ swapchain_info.minImageCount = _swapchain_support.capabilities.maxImageCount

\* C19: the swapchain is created with exclusive sharing exactly when the
\* graphics family index equals the present family index, and otherwise with
\* concurrent sharing over exactly those two indices.
C19_SharingMode ==
    Created =>
        IF _queue_family.gfx_family = _queue_family.present_family
        THEN swapchain_info.sharing.imageSharingMode = VK_SHARING_MODE_EXCLUSIVE
        ELSE /\ swapchain_info.sharing.imageSharingMode = VK_SHARING_MODE_CONCURRENT
             /\ swapchain_info.sharing.queueFamilyIndices =
                  <<_queue_family.gfx_family, _queue_family.present_family>>

\* graphics and presentation are in different families, and the swapchain
\* was created a second time
C19_Witness ==
    /\ Created
    /\ destroyed # {}
    /\ _queue_family.gfx_family # _queue_family.present_family
    /\ swapchain_info.sharing.imageSharingMode = VK_SHARING_MODE_CONCURRENT

\* C20: when the surface reports no format or no present mode,
\* create_swapchain throws before a swapchain is created, at startup and
\* during a recreation alike; main() returns EXIT_FAILURE and no further
\* tick runs.
C20_NoSuitableSwapchainIsFatal ==
    /\ [](Len(_swapchain_support.formats) = 0
            \/ Len(_swapchain_support.present_modes) = 0 =>
            /\ pc = "failed"
            /\ exit_code = EXIT_FAILURE
            /\ "swapchain" \notin live
            /\ tick.recreate \in {"none", "threw"})
    /\ [][pc = "failed" =>
            /\ pc' = "failed"
            /\ UNCHANGED <<tick, _current_frame, exit_code, swapchainVars>>]_vars

\* a recreation has found a surface without present modes
C20_Witness ==
    /\ pc = "failed"
    /\ tick.recreate = "threw"
    /\ _swapchain_support.formats # <<>>
    /\ _swapchain_support.present_modes = <<>>
    /\ exit_code = EXIT_FAILURE

\* C21: main() returns 0 exactly when run() has returned after the quit and
\* the teardown, and 1 exactly when a failure was raised inside run(); a
\* failing acquire, submit, present or create_swapchain is always followed by
\* exit code 1, and once main() has its exit code nothing is run again.
C21_ExitCodes ==
    /\ [](/\ exit_code \in {-1, 0, 1}
          /\ exit_code = 0 <=> pc = "done"
          /\ exit_code = 1 <=> pc = "failed"
          /\ pc = "done" => ~running /\ live = {}
          /\ res = VK_ERROR_DEVICE_LOST => exit_code = 1
          /\ tick.recreate = "threw" => exit_code = 1)
    /\ [][exit_code # -1 =>
            UNCHANGED <<pc, exit_code, tick, _current_frame, swapchainVars>>]_vars

\* the quit was polled, and the draw_frame that followed it failed on present
C21_Witness ==
    /\ ~running
    /\ pc = "failed"
    /\ exit_code = 1
    /\ res = VK_ERROR_DEVICE_LOST
    /\ "submit" \in tick.did

\* the last element of a non-empty queue
Last(queue) == queue[Len(queue)]

\* C22: every submit waits on the image-available semaphore of the current
\* slot and signals that slot's render-finished semaphore and fence for the
\* image acquired in this tick; every present waits on that same
\* render-finished semaphore and names the same image; the GPU executes a
\* submission only once its acquire has signaled, and completes a present
\* only once the command buffer that renders to that image has completed.
C22_SemaphoreOrder ==
    /\ [][Len(gfx_queue') > Len(gfx_queue) =>
            /\ Last(gfx_queue').wait = _current_frame
            /\ Last(gfx_queue').signal = _current_frame
            /\ Last(gfx_queue').fence = _current_frame
            /\ Last(gfx_queue').cmd.framebuffer.image = image_idx
            /\ "reset_fence" \in tick.did]_vars
    /\ [][Len(present_queue') > Len(present_queue) =>
            /\ Last(present_queue').wait = _current_frame
            /\ Last(present_queue').image = image_idx
            /\ Last(present_queue').swapchain = _swapchain
            /\ _command_buffer[_current_frame].framebuffer.image = image_idx
            /\ "submit" \in tick.did]_vars
    /\ [][Len(gfx_queue') < Len(gfx_queue) =>
            /\ _image_available[Head(gfx_queue).slot]
            /\ ~_image_available'[Head(gfx_queue).slot]
            /\ _render_finished'[Head(gfx_queue).slot]
                 = _render_finished[Head(gfx_queue).slot] + 1
            /\ _in_flight'[Head(gfx_queue).slot]]_vars
    /\ [][Len(present_queue') < Len(present_queue) =>
            /\ _render_finished[Head(present_queue).slot] > 0
            /\ \A k \in 1 .. Len(gfx_queue) :
                 ~ (/\ gfx_queue[k].slot = Head(present_queue).slot
                    /\ gfx_queue[k].cmd.framebuffer.swapchain
                         = Head(present_queue).swapchain
                    /\ gfx_queue[k].cmd.framebuffer.image
                         = Head(present_queue).image)]_vars

\* the frame of this tick has been rendered and presented on the GPU before
\* draw_frame has returned
C22_Witness ==
    /\ pc = "advance"
    /\ {"submit", "present"} \subseteq tick.did
    /\ gfx_queue = <<>>
    /\ present_queue = <<>>
    /\ _in_flight[_current_frame]
    /\ _render_finished[_current_frame] = 0

\* everything draw_frame does between a successful acquire and its last line
WholeFrame ==
    {"reset_fence", "update_ubos", "reset_command", "record", "submit", "present"}

\* C23: the result of acquire is handled in every case: success and
\* suboptimal go on to record, submit and present; out-of-date calls
\* recreate_swapchain and skips the rest; any other result is fatal.  A
\* present result other than success, suboptimal and out-of-date is fatal.
\* After a fatal error no tick starts and nothing is submitted or presented.
C23_ResultHandlingIsTotal ==
    /\ [][(pc = "acquire" /\ pc' # "acquire") =>
            /\ res' \in {VK_SUCCESS, VK_SUBOPTIMAL_KHR} => pc' = "submit"
            /\ res' = VK_ERROR_OUT_OF_DATE_KHR =>
                 pc' = "recreate" /\ tick'.outcome = "skipped"
            /\ res' \notin {VK_SUCCESS, VK_SUBOPTIMAL_KHR, VK_ERROR_OUT_OF_DATE_KHR} =>
                 pc' = "failed" /\ exit_code' = 1]_vars
    /\ [][(pc = "present" /\ pc' # "present") =>
            /\ res' \notin {VK_SUCCESS, VK_SUBOPTIMAL_KHR, VK_ERROR_OUT_OF_DATE_KHR} =>
                 pc' = "failed" /\ exit_code' = 1
            /\ res' \in {VK_SUCCESS, VK_SUBOPTIMAL_KHR, VK_ERROR_OUT_OF_DATE_KHR} =>
                 pc' \in {"advance", "recreate"}]_vars
    /\ [][pc = "failed" =>
            /\ pc' = "failed"
            /\ Len(gfx_queue') <= Len(gfx_queue)
            /\ Len(present_queue') <= Len(present_queue)
            /\ UNCHANGED tick]_vars
    /\ [](/\ pc = "advance" => tick.did = WholeFrame
          /\ tick.outcome = "skipped" => tick.did = {})

\* a tick after the first one has failed on acquire
C23_Witness ==
    /\ pc = "failed"
    /\ HasPrevTick
    /\ res = VK_ERROR_DEVICE_LOST
    /\ tick.did = {}
    /\ tick.recreate = "none"

\* C24 (as stated): once a quit event has been polled no further draw_frame
\* is started: the loop is left before another frame.
C24_NoFrameAfterQuit == ~running => pc \in {"loop", "done"}

\* C24 (amended): running changes only between two frames, in the poll loop;
\* the pass of the loop that polled the quit still calls draw_frame once,
\* which runs like any other; when it has returned the loop is left without
\* another poll or frame and the teardown runs.
C24_QuitAfterOneMoreFrame ==
    /\ [][running' # running => pc = "loop" /\ ~running' /\ pc' = "wait_fence"]_vars
    /\ [][~running => tick'.slot = tick.slot /\ prev_tick' = prev_tick]_vars
    /\ [][(~running /\ pc = "loop") => pc' \in {"loop", "done"}]_vars
    /\ []((~running /\ pc = "submit") => ENABLED Submit)
    /\ []((~running /\ pc = "present") => ENABLED Present)
    /\ []((~running /\ pc = "advance") => ENABLED Advance)

\* the quit has been polled and the frame of that pass has been submitted
C24_Witness ==
    /\ ~running
    /\ pc = "present"
    /\ "submit" \in tick.did
    /\ Len(gfx_queue) > 0

\* C25: update_ubos writes the uniform buffer of the current slot and of no
\* other, in a tick that has waited on the slot's fence, at a moment when no
\* submitted command buffer that binds the slot's descriptor set is still
\* executing; the command buffer recorded after the write, and the one
\* submitted, bind the descriptor set of that same slot.
C25_UniformWriteIsExclusive ==
    [][("update_ubos" \in tick'.did /\ "update_ubos" \notin tick.did) =>
         /\ tick.slot = _current_frame
         /\ "reset_fence" \in tick.did
         /\ \A k \in 1 .. Len(gfx_queue) :
              gfx_queue[k].cmd.descriptor_set # _current_frame
         /\ _mapped_uniform_buffers'[_current_frame] = "written"
         /\ \A s \in Slots \ {_current_frame} :
              _mapped_uniform_buffers'[s] = _mapped_uniform_buffers[s]
         /\ _command_buffer'[_current_frame].descriptor_set \in {_current_frame, -1}
         /\ Len(gfx_queue') > Len(gfx_queue) =>
              Last(gfx_queue').cmd.descriptor_set = _current_frame]_vars

\* the uniform buffer of the current slot was written and its command buffer
\* submitted while the command buffer of the other slot is still executing
C25_Witness ==
    /\ pc = "present"
    /\ "update_ubos" \in tick.did
    /\ Len(gfx_queue) = 2
    /\ gfx_queue[1].cmd.descriptor_set # _current_frame
    /\ gfx_queue[2].cmd.descriptor_set = _current_frame

\* C26 (as stated): when a submit is given the render-finished semaphore of
\* the current slot to signal, no present queued earlier that waits on that
\* semaphore is still pending.
C26_NoPendingPresentOnSignal ==
    [][Len(gfx_queue') > Len(gfx_queue) =>
         \A k \in 1 .. Len(present_queue) :
            present_queue[k].wait # Last(gfx_queue').signal]_vars

\* C27: whenever vkAcquireNextImageKHR is given the image-available
\* semaphore of the current slot, the semaphore is unsignaled, no submission
\* that waits on it is pending, and the fence of the slot is signaled: the
\* last acquire on the slot left it untouched or its submit has completed.
C27_ImageAvailableIsIdle ==
    [][(pc = "acquire" /\ pc' # "acquire") =>
         /\ ~_image_available[_current_frame]
         /\ _in_flight[_current_frame]
         /\ \A k \in 1 .. Len(gfx_queue) : gfx_queue[k].wait # _current_frame]_vars

\* an acquire has been made on the slot that the tick before, skipped on
\* out-of-date, had used, while the submission of the other slot is pending
C27_Witness ==
    /\ pc = "submit"
    /\ prev_tick.outcome = "skipped"
    /\ prev_tick.slot = _current_frame
    /\ _image_available[_current_frame]
    /\ Len(gfx_queue) = 1

\* C28: every command buffer that is submitted renders to the framebuffer,
\* of the swapchain current at the submit, whose index acquire returned in
\* the same tick; the index is below the number of framebuffers, no
\* recreation has taken place in the tick before the submit, and no pending
\* submission refers to a framebuffer of a destroyed swapchain.
C28_SubmitTargetsCurrentSwapchain ==
    /\ [][Len(gfx_queue') > Len(gfx_queue) =>
            /\ image_idx < Len(_framebuffers)
            /\ image_idx < _swapchain_images
            /\ Last(gfx_queue').cmd.framebuffer.swapchain = _swapchain
            /\ Last(gfx_queue').cmd.framebuffer.image = image_idx
            /\ _framebuffers[image_idx + 1].view.swapchain = _swapchain
            /\ _framebuffers[image_idx + 1].view.image = image_idx
            /\ tick.recreate = "none"
            /\ "reset_fence" \in tick.did
            /\ UNCHANGED swapchainVars]_vars
    /\ [](\A k \in 1 .. Len(gfx_queue) :
            /\ gfx_queue[k].cmd.framebuffer.swapchain \notin destroyed
            /\ gfx_queue[k].cmd.framebuffer.swapchain = _swapchain)

\* after a recreation, a command buffer that renders to the second image of
\* the new swapchain has been submitted
C28_Witness ==
    /\ pc = "present"
    /\ destroyed # {}
    /\ image_idx = 1
    /\ Len(gfx_queue) > 0
    /\ Last(gfx_queue).cmd.framebuffer.swapchain = _swapchain
    /\ Last(gfx_queue).cmd.framebuffer.image = 1

\* C29 (as stated): whenever a swapchain exists, its image format and the
\* format of each of its image views is the format the render pass was
\* created with.
C29_FormatMatchesRenderPass ==
    "swapchain" \in live =>
        /\ swapchain_info.imageFormat = _render_pass.format
        /\ \A i \in 1 .. Len(_swapchain_image_views) :
               _swapchain_image_views[i].format = _render_pass.format

\* C30 (as stated): the image count a swapchain is requested with is at
\* least the minImageCount of the capabilities it was computed from, a
\* maxImageCount of 0 and a maxImageCount equal to minImageCount included.
C30_AtLeastMinImageCount ==
    Created =>
        swapchain_info.minImageCount
            >= _swapchain_support.capabilities.minImageCount

====
